---- MODULE Spec2Model ----
(***************************************************************************)
(* A model of the perceptual image comparison YeeCompare (metric.go), its  *)
(* Laplacian pyramid (laplacian_pyramid.go) and its psychophysical         *)
(* functions (tvi, csf, mask, adaptation, colour conversion).              *)
(*                                                                         *)
(* float64 values are modelled as decimal floating-point numbers <<m, e>>  *)
(* (value m * 10^e) with a four-digit mantissa: 1000 <= |m| <= 9999, or    *)
(* <<0, 0>> for zero.  The library functions math.Log10, math.Pow,         *)
(* math.Exp, math.Sqrt and math.Tan are computed on that representation    *)
(* from tables and series, so every numeric result of the model is a       *)
(* rounded version of the float64 result, not the float64 result itself.   *)
(***************************************************************************)
EXTENDS Integers, Sequences, FiniteSets, TLC

(***************************************************************************)
(* Decimal floating point.                                                 *)
(***************************************************************************)

\* func abs(x int) int
abs(x) == IF x >= 0 THEN x ELSE -x

Sgn(x) == IF x > 0 THEN 1 ELSE IF x < 0 THEN -1 ELSE 0

\* integer division truncating toward zero
TDiv(a, b) == Sgn(a) * Sgn(b) * (abs(a) \div abs(b))

NDigits(a) ==
  CASE a < 10 -> 1
    [] a < 100 -> 2
    [] a < 1000 -> 3
    [] a < 10000 -> 4
    [] a < 100000 -> 5
    [] a < 1000000 -> 6
    [] a < 10000000 -> 7
    [] a < 100000000 -> 8
    [] a < 1000000000 -> 9
    [] OTHER -> 10

\* m * 10^e with the mantissa moved by s digits
Scale(m, e, s) ==
  IF s > 0 THEN <<TDiv(m, 10^s), e + s>> ELSE <<m * 10^(-s), e + s>>

\* the float64 nearest below m * 10^e, in the four-digit representation
Norm(m, e) ==
  IF m = 0 THEN <<0, 0>> ELSE Scale(m, e, NDigits(abs(m)) - 4)

\* float64(n) of an int n
FloatOf(n) == Norm(n, 0)

FZero == <<0, 0>>
FOne == <<1000, -3>>

FNeg(x) == <<-x[1], x[2]>>

FAbs(x) == <<abs(x[1]), x[2]>>

FMul(x, y) == Norm(x[1] * y[1], x[2] + y[2])

\* x / y for y # 0
FDiv(x, y) == Norm(TDiv(x[1] * 10000, y[1]), x[2] - y[2] - 4)

FAdd(x, y) ==
  IF x[1] = 0 THEN y
  ELSE IF y[1] = 0 THEN x
  ELSE IF x[2] >= y[2]
       THEN IF x[2] - y[2] > 4 THEN x
            ELSE Norm(x[1] * 10^(x[2] - y[2]) + y[1], y[2])
       ELSE IF y[2] - x[2] > 4 THEN y
            ELSE Norm(y[1] * 10^(y[2] - x[2]) + x[1], x[2])

FSub(x, y) == FAdd(x, FNeg(y))

\* x < y
FLt(x, y) == FSub(x, y)[1] < 0

\* x > y
FGt(x, y) == FLt(y, x)

FMax(x, y) == IF FLt(x, y) THEN y ELSE x

FMin(x, y) == IF FLt(y, x) THEN y ELSE x

\* log10(d / 10) * 10000 for d = 10 .. 100
Log10Tab ==
  <<0, 414, 792, 1139, 1461, 1761, 2041, 2304, 2553, 2788, 3010, 3222,
    3424, 3617, 3802, 3979, 4150, 4314, 4472, 4624, 4771, 4914, 5051, 5185,
    5315, 5441, 5563, 5682, 5798, 5911, 6021, 6128, 6232, 6335, 6435, 6532,
    6628, 6721, 6812, 6902, 6990, 7076, 7160, 7243, 7324, 7404, 7482, 7559,
    7634, 7709, 7782, 7853, 7924, 7993, 8062, 8129, 8195, 8261, 8325, 8388,
    8451, 8513, 8573, 8633, 8692, 8751, 8808, 8865, 8921, 8976, 9031, 9085,
    9138, 9191, 9243, 9294, 9345, 9395, 9445, 9494, 9542, 9590, 9638, 9685,
    9731, 9777, 9823, 9868, 9912, 9956, 10000>>

\* 10^(k / 64) * 1000 for k = 0 .. 64
Exp10Tab ==
  <<1000, 1037, 1075, 1114, 1155, 1197, 1241, 1286, 1334, 1382, 1433, 1486,
    1540, 1596, 1655, 1715, 1778, 1843, 1911, 1981, 2054, 2129, 2207, 2288,
    2371, 2458, 2548, 2642, 2738, 2839, 2943, 3051, 3162, 3278, 3398, 3523,
    3652, 3786, 3924, 4068, 4217, 4371, 4532, 4698, 4870, 5048, 5233, 5425,
    5623, 5829, 6043, 6264, 6494, 6732, 6978, 7234, 7499, 7774, 8058, 8354,
    8660, 8977, 9306, 9647, 10000>>

\* the entry i of a table, moved r / n of the way to the entry i + 1
Interpolate(tab, i, r, n) == tab[i] + ((tab[i + 1] - tab[i]) * r) \div n

\* math.Log10(x) for x > 0: the exponent plus the interpolated log of the mantissa
Log10(x) ==
  Norm((x[2] + 3) * 10000 + Interpolate(Log10Tab, (x[1] \div 100) - 9, x[1] % 100, 100), -4)

\* floor(y * 10000) for a float y of moderate size
Fix4(y) ==
  IF y[2] + 4 >= 0 THEN y[1] * 10^(y[2] + 4)
  ELSE IF y[2] + 4 < -4 THEN (IF y[1] < 0 THEN -1 ELSE 0)
  ELSE y[1] \div 10^(-(y[2] + 4))

\* 10^(u / 10000) for an integer u
Exp10Fix(u) ==
  Norm(Interpolate(Exp10Tab, (((u % 10000) * 64) \div 10000) + 1,
                   ((u % 10000) * 64) % 10000, 10000),
       (u \div 10000) - 3)

\* math.Pow(10, y)
Exp10(y) == Exp10Fix(Fix4(y))

\* math.Pow(x, y) for x >= 0 (and y > 0 when x = 0)
Pow(x, y) ==
  IF y[1] = 0 THEN FOne
  ELSE IF x[1] = 0 THEN FZero
  ELSE Exp10(FMul(y, Log10(x)))

\* math.Exp(x) = 10^(x * log10(e))
Exp(x) == Exp10(FMul(x, <<4343, -4>>))

\* math.Sqrt(x) for x >= 0
Sqrt(x) == Pow(x, <<5000, -4>>)

\* x * (1 + x2/3 + 2 x2^2/15 + 17 x2^3/315) for x2 = x^2
TanSeries(x, x2) ==
  FMul(x, FAdd(FOne,
               FMul(x2, FAdd(FDiv(FOne, FloatOf(3)),
                             FMul(x2, FAdd(FDiv(FloatOf(2), FloatOf(15)),
                                           FMul(x2, FDiv(FloatOf(17), FloatOf(315)))))))))

\* math.Tan(x) for |x| < pi/4
Tan(x) == TanSeries(x, FMul(x, x))

\* math.Pi
Pi == <<3142, -3>>

\* the float64 constant m * 10^e of the source text
Dec(m, e) == Norm(m, e)

(***************************************************************************)
(* Metric math and colour functions.                                       *)
(***************************************************************************)

MAX_PYR_LEVELS == 8

to_radians(degrees) == FDiv(FMul(degrees, Pi), Dec(180, 0))

to_degrees(radians) == FDiv(FMul(radians, Dec(180, 0)), Pi)

\* the five branches of tvi on log_a, the log10 of the luminance: r
tvi_branch(log_a) ==
  IF FLt(log_a, Dec(-394, -2)) THEN Dec(-286, -2)
  ELSE IF FLt(log_a, Dec(-144, -2))
       THEN FSub(Pow(FAdd(FMul(Dec(405, -3), log_a), Dec(16, -1)), Dec(218, -2)),
                 Dec(286, -2))
  ELSE IF FLt(log_a, Dec(-184, -4)) THEN FSub(log_a, Dec(395, -3))
  ELSE IF FLt(log_a, Dec(19, -1))
       THEN FSub(Pow(FAdd(FMul(Dec(249, -3), log_a), Dec(65, -2)), Dec(27, -1)),
                 Dec(72, -2))
  ELSE FSub(log_a, Dec(1255, -3))

\* Ward Larson threshold-vs-intensity
tvi(adaptation_luminance) == Pow(Dec(10, 0), tvi_branch(Log10(adaptation_luminance)))

\* the return expression of csf for its locals a and b
csf_value(cpd, a, b) ==
  FMul(FMul(FMul(a, cpd), Exp(FMul(FNeg(b), cpd))),
       Sqrt(FAdd(FOne, FMul(Dec(6, -2), Exp(FMul(b, cpd))))))

\* Barten contrast sensitivity
csf(cpd, lum) ==
  csf_value(cpd,
            FMul(Dec(440, 0), Pow(FAdd(FOne, FDiv(Dec(7, -1), lum)), Dec(-2, -1))),
            FMul(Dec(3, -1), Pow(FAdd(FOne, FDiv(Dec(100, 0), lum)), Dec(15, -2))))

\* Daly visual masking
mask(contrast) ==
  LET a == Pow(FMul(Dec(392498, -3), contrast), Dec(7, -1))
      b == Pow(FMul(Dec(153, -4), a), Dec(4, 0))
  IN  Pow(FAdd(FOne, b), Dec(25, -2))

\* Adobe RGB (1998) to XYZ: <<x, y, z>>
adobe_rgb_to_xyz(r, g, b) ==
  << FAdd(FAdd(FMul(r, Dec(576700, -6)), FMul(g, Dec(185556, -6))), FMul(b, Dec(188212, -6))),
     FAdd(FAdd(FMul(r, Dec(297361, -6)), FMul(g, Dec(627355, -6))), FMul(b, Dec(752847, -7))),
     FAdd(FAdd(FMul(r, Dec(270328, -7)), FMul(g, Dec(706879, -7))), FMul(b, Dec(991248, -6))) >>

\* the reference white set by init()
white == adobe_rgb_to_xyz(FOne, FOne, FOne)

\* f[i] of xyz_to_lab for r[i]
lab_f(r) ==
  LET epsilon == FDiv(Dec(216, 0), Dec(24389, 0))
      kappa == FDiv(Dec(24389, 0), Dec(27, 0))
  IN  IF FGt(r, epsilon) THEN Pow(r, FDiv(FOne, Dec(3, 0)))
      ELSE FDiv(FAdd(FMul(kappa, r), Dec(16, 0)), Dec(116, 0))

\* <<l, a, b>> of xyz_to_lab for f[0], f[1], f[2]
lab_value(f0, f1, f2) ==
  << FSub(FMul(Dec(116, 0), f1), Dec(16, 0)),
     FMul(Dec(500, 0), FSub(f0, f1)),
     FMul(Dec(200, 0), FSub(f1, f2)) >>

\* the reference white, passed once
lab_against(x, y, z, xn) ==
  lab_value(lab_f(FDiv(x, xn[1])), lab_f(FDiv(y, xn[2])), lab_f(FDiv(z, xn[3])))

\* XYZ to L*a*b*: <<l, a, b>>
xyz_to_lab(x, y, z) == lab_against(x, y, z, white)

RECURSIVE adaptation_loop(_, _, _)
adaptation_loop(i, num_pixels, num_one_degree_pixels) ==
  IF FGt(num_pixels, num_one_degree_pixels) \/ i + 1 >= MAX_PYR_LEVELS THEN i
  ELSE adaptation_loop(i + 1, FMul(num_pixels, Dec(2, 0)), num_one_degree_pixels)

\* the pyramid level (0 .. 7) whose pixel count first exceeds one degree
adaptation(num_one_degree_pixels) == adaptation_loop(0, FOne, num_one_degree_pixels)

(***************************************************************************)
(* Images (image.Image): a bounds rectangle Min .. Max and the colours of   *)
(* its pixels, row-major; a colour is what RGBA() returns, <<r, g, b, a>>   *)
(* in 0 .. 65535.                                                          *)
(***************************************************************************)

\* Bounds().Size()
Size(img) == <<img.Max[1] - img.Min[1], img.Max[2] - img.Min[2]>>

\* At(x, y).RGBA(): the pixel, or the zero colour outside the bounds
At(img, x, y) ==
  IF /\ img.Min[1] <= x /\ x < img.Max[1]
     /\ img.Min[2] <= y /\ y < img.Max[2]
  THEN img.Pix[(y - img.Min[2]) * (img.Max[1] - img.Min[1]) + (x - img.Min[1]) + 1]
  ELSE <<0, 0, 0, 0>>

(***************************************************************************)
(* Laplacian pyramid.                                                      *)
(***************************************************************************)

kernel == <<Dec(5, -2), Dec(25, -2), Dec(4, -1), Dec(25, -2), Dec(5, -2)>>

\* the two-step reflection of an offset coordinate n into a dimension dim
reflect(n, dim) ==
  LET m == abs(n)
  IN  IF m >= dim THEN 2 * dim - m - 1 ELSE m

\* the index of b that convolve reads for pixel (x, y) and offsets (i, j)
convolve_index(x, y, i, j, width, height) ==
  reflect(y + j, height) * width + reflect(x + i, width)

\* every read of convolve is inside the buffer
convolve_in_range(width, height) ==
  \A y \in 0..(height - 1), x \in 0..(width - 1), i \in -2..2, j \in -2..2 :
     /\ 0 <= convolve_index(x, y, i, j, width, height)
     /\ convolve_index(x, y, i, j, width, height) < width * height

RECURSIVE convolve_sum(_, _, _, _, _, _, _)
convolve_sum(b, x, y, width, height, n, result) ==
  IF n = 25 THEN result
  ELSE LET i == (n \div 5) - 2
           j == (n % 5) - 2
       IN  convolve_sum(b, x, y, width, height, n + 1,
             FAdd(result,
                  FMul(FMul(kernel[i + 3], kernel[j + 3]),
                       b[convolve_index(x, y, i, j, width, height) + 1])))

\* the loop of convolve over the pixels: a[0 .. index-1] filled so far
RECURSIVE convolve_loop(_, _, _, _)
convolve_loop(a, b, width, height) ==
  IF Len(a) = width * height THEN a
  ELSE convolve_loop(
         Append(a, convolve_sum(b, Len(a) % width, Len(a) \div width, width, height, 0, FZero)),
         b, width, height)

\* convolve(a, b): the new contents of a
convolve(b, width, height) == convolve_loop(<<>>, b, width, height)

RECURSIVE pyramid_levels(_, _, _, _)
pyramid_levels(levels, image, width, height) ==
  IF Len(levels) = MAX_PYR_LEVELS THEN levels
  ELSE IF Len(levels) = 0 \/ width * height <= 1
       THEN pyramid_levels(Append(levels, image), image, width, height)
       ELSE pyramid_levels(Append(levels, convolve(levels[Len(levels)], width, height)),
                           image, width, height)

\* newPyramid runs into an out-of-range read
newPyramid_panics(width, height) ==
  width * height > 1 /\ ~convolve_in_range(width, height)

newPyramid(image, width, height) ==
  [width |-> width, height |-> height,
   levels |-> pyramid_levels(<<>>, image, width, height)]

get_value(l, x, y, level) == l.levels[level + 1][x + y * l.width + 1]

(***************************************************************************)
(* The per-pixel test of YeeCompare.                                       *)
(***************************************************************************)

ReasonDimensionMismatch == "Image dimensions do not match"
ReasonBinaryIdentical == "Images are binary identical"
ReasonIndistinguishable == "Images are perceptually indistinguishable"
ReasonVisiblyDifferent == "Images are visibly different"

DefaultParameters ==
  [LuminanceOnly |-> FALSE, FieldOfView |-> Dec(45, 0), Gamma |-> Dec(22, -1),
   Luminance |-> Dec(100, 0), ThresholdPixels |-> 100, ColorFactor |-> Dec(1, 0)]

\* the channel value c of RGBA() made linear
linear(c, gamma) == Pow(FDiv(FloatOf(c), FloatOf(65535)), gamma)

\* a_lum[i], a_a[i], a_b[i] for the luminance y * luminance and the lab triple
converted(lum, lab) == <<lum, lab[2], lab[3]>>

\* the same for the triple xyz
convert_xyz(xyz, luminance) ==
  converted(FMul(xyz[2], luminance), xyz_to_lab(xyz[1], xyz[2], xyz[3]))

\* what one iteration of the conversion loop stores for a colour: <<lum, a, b>>
color_convert(c, gamma, luminance) ==
  convert_xyz(adobe_rgb_to_xyz(linear(c[1], gamma), linear(c[2], gamma), linear(c[3], gamma)),
              luminance)

num_one_degree_pixels(args) ==
  to_degrees(FMul(Dec(2, 0), Tan(FMul(args.FieldOfView, to_radians(Dec(5, -1))))))

RECURSIVE cpd_levels(_, _)
cpd_levels(cpd, pixels_per_degree) ==
  IF Len(cpd) = MAX_PYR_LEVELS THEN cpd
  ELSE IF Len(cpd) = 0
       THEN cpd_levels(<<FMul(Dec(5, -1), pixels_per_degree)>>, pixels_per_degree)
       ELSE cpd_levels(Append(cpd, FMul(Dec(5, -1), cpd[Len(cpd)])), pixels_per_degree)

RECURSIVE f_freq_levels(_, _, _)
f_freq_levels(f_freq, cpd, csf_max) ==
  IF Len(f_freq) = MAX_PYR_LEVELS - 2 THEN f_freq
  ELSE f_freq_levels(Append(f_freq, FDiv(csf_max, csf(cpd[Len(f_freq) + 1], Dec(100, 0)))),
                     cpd, csf_max)

\* adaptation_level, cpd and f_freq, for the levels cpd
constants_of(adaptation_level, cpd) ==
  [adaptation_level |-> adaptation_level,
   cpd |-> cpd,
   f_freq |-> f_freq_levels(<<>>, cpd, csf(Dec(3248, -3), Dec(100, 0)))]

\* the same for the value n of num_one_degree_pixels
constants_for(width, n) ==
  constants_of(adaptation(n), cpd_levels(<<>>, FDiv(FloatOf(width), n)))

\* the values YeeCompare derives once, before the per-pixel pass
fuse_constants(width, args) == constants_for(width, num_one_degree_pixels(args))

\* the loop over the pyramid levels: <<factor, sum_contrast>>
RECURSIVE contrast_loop(_, _, _, _, _, _, _, _, _)
RECURSIVE contrast_step(_, _, _, _, _, _, _, _, _, _)
contrast_loop(pa, pb, px, py, adapt, c, i, factor, sum_contrast) ==
  IF i = MAX_PYR_LEVELS - 2 THEN <<factor, sum_contrast>>
  ELSE LET n1 == FAbs(FSub(get_value(pa, px, py, i), get_value(pa, px, py, i + 1)))
           n2 == FAbs(FSub(get_value(pb, px, py, i), get_value(pb, px, py, i + 1)))
           numerator == FMax(n1, n2)
           d1 == FAbs(get_value(pa, px, py, i + 2))
           d2 == FAbs(get_value(pb, px, py, i + 2))
           denominator == FMax(FMax(d1, d2), Dec(1, -5))
       IN  contrast_step(pa, pb, px, py, adapt, c, i, factor, sum_contrast,
                         FDiv(numerator, denominator))

\* the end of one iteration, for its contrast
contrast_step(pa, pb, px, py, adapt, c, i, factor, sum_contrast, contrast) ==
  contrast_loop(pa, pb, px, py, adapt, c, i + 1,
                FAdd(factor, FMul(FMul(contrast, c.f_freq[i + 1]),
                                  mask(FMul(contrast, csf(c.cpd[i + 1], adapt))))),
                FAdd(sum_contrast, contrast))

\* factor after the loop: divided by sum_contrast and clamped to 1 .. 10
factor_of(fs) ==
  FMin(FMax(FDiv(fs[1], FMax(fs[2], Dec(1, -5))), Dec(1, 0)), Dec(10, 0))

\* the tests of one pixel without the luminance test
color_test_only(p, adapt, factor, delta, delta_e) ==
  [delta |-> delta,
   delta_e |-> delta_e,
   pass |-> p.LuminanceOnly \/ ~FGt(delta_e, factor),
   adapt |-> adapt, factor |-> factor]

\* the tests of one pixel, for its adapt, factor, delta and delta_e
pixel_tests(p, adapt, factor, delta, delta_e) ==
  [delta |-> delta,
   delta_e |-> delta_e,
   pass |-> /\ ~FGt(delta, FMul(factor, tvi(adapt)))
            /\ (p.LuminanceOnly \/ ~FGt(delta_e, factor)),
   adapt |-> adapt, factor |-> factor]

\* (da*da + db*db) * color_scale
delta_e_of(da, db, color_scale) == FMul(FAdd(FMul(da, da), FMul(db, db)), color_scale)

\* one pixel of the per-pixel pass, for its adapt
pixel_adapted(px, py, index, pa, pb, a_a, b_a, a_b, b_b, c, p, adapt) ==
  pixel_tests(p, adapt,
              factor_of(contrast_loop(pa, pb, px, py, adapt, c, 0, FZero, FZero)),
              FAbs(FSub(get_value(pa, px, py, 0), get_value(pb, px, py, 0))),
              delta_e_of(FSub(a_a[index + 1], b_a[index + 1]),
                         FSub(a_b[index + 1], b_b[index + 1]),
                         IF FLt(adapt, Dec(10, 0)) THEN FZero ELSE p.ColorFactor))

\* one pixel of the per-pixel pass: what it adds to error_sum and whether it passes
pixel_fuse(px, py, width, pa, pb, a_a, b_a, a_b, b_b, c, p) ==
  pixel_adapted(px, py, py * width + px, pa, pb, a_a, b_a, a_b, b_b, c, p,
                FMax(FMul(FAdd(get_value(pa, px, py, c.adaptation_level),
                               get_value(pb, px, py, c.adaptation_level)), Dec(5, -1)),
                     Dec(1, -5)))

(***************************************************************************)
(* The inputs of one call YeeCompare(image_a, image_b, args, nil).         *)
(***************************************************************************)

MaxW == 2
MaxH == 2
MaxPix == 4

White == <<65535, 65535, 65535, 65535>>
Black == <<0, 0, 0, 65535>>
Red == <<65535, 0, 0, 65535>>
\* a gray whose luminance, in the arithmetic of this model, equals that of Red
Gray == <<37775, 37775, 37775, 65535>>

Palette == {White, Black, Red, Gray}

Pixels(s) == s[1] * s[2]

\* the sizes: at most MaxW wide, MaxH high and MaxPix pixels
Sizes == {s \in (0..MaxW) \X (0..MaxH) : Pixels(s) <= MaxPix}

\* the bounds origins: (0, 0), and the origin of a sub-image
Origins == {<<0, 0>>, <<-1, 1>>}

RECURSIVE Painted(_, _, _, _)
Painted(pix, n, c, D) ==
  IF Len(pix) = n THEN pix
  ELSE Painted(Append(pix, IF (Len(pix) + 1) \in D THEN c[2] ELSE c[1]), n, c, D)

\* an image of size s at origin o: colour c[1], and c[2] at the pixels in D
Image(o, s, c, D) ==
  [Min |-> o, Max |-> <<o[1] + s[1], o[2] + s[2]>>, Pix |-> Painted(<<>>, s[1] * s[2], c, D)]

Uniform(o, s, c) == Image(o, s, <<c, c>>, {})

\* the colours of a pair of images: every pair for images of at most one pixel,
\* and white against black or red against gray for larger ones
ColourPairs(sa, sb) ==
  IF Pixels(sa) <= 1 \/ Pixels(sb) <= 1 THEN Palette \X Palette
  ELSE {<<White, Black>>, <<Red, Gray>>}

\* the pixels at which the second image differs from the first: none, the last
\* one, or all
Differences(s) == {{}, {Pixels(s)}, 1..Pixels(s)}

\* the origins of a pair of images: larger images share their origin
OriginPairs(sa, sb) ==
  IF Pixels(sa) <= 1 \/ Pixels(sb) <= 1 THEN Origins \X Origins
  ELSE {<<o, o>> : o \in Origins}

\* the thresholds: 0, 1 and the default for images of at most one pixel
Thresholds(sa, sb) ==
  IF Pixels(sa) <= 1 \/ Pixels(sb) <= 1 THEN {0, 1, DefaultParameters.ThresholdPixels}
  ELSE {DefaultParameters.ThresholdPixels}

(***************************************************************************)
(* The state of one call.                                                  *)
(***************************************************************************)

VARIABLES
  image_a, image_b, args,   \* the arguments
  pc,                       \* where the calling goroutine is
  x, y,                     \* its loop variables
  identical,
  log,                      \* what was written to output_verbose
  buf,                      \* a_lum, b_lum, a_a, b_a, a_b, b_b
  wg,                       \* the WaitGroup counter
  conv,                     \* the row tasks of the conversion, by row number
  k,                        \* adaptation_level, cpd, f_freq
  pixels_failed, error_sum,
  diffImg, la, lb,
  fuse,                     \* the row tasks of the per-pixel pass, by row
  writers,                  \* per phase, which row tasks wrote each index / pixel
  out                       \* the returned values

vars == <<image_a, image_b, args, pc, x, y, identical, log, buf, wg, conv, k,
          pixels_failed, error_sum, diffImg, la, lb, fuse, writers, out>>

inputs == <<image_a, image_b, args>>

NilImage == [Min |-> <<0, 0>>, Max |-> <<0, 0>>, Pix |-> <<>>]
NilPyramid == [width |-> 0, height |-> 0, levels |-> <<>>]
NilBuffers == [a_lum |-> <<>>, b_lum |-> <<>>, a_a |-> <<>>, b_a |-> <<>>,
               a_b |-> <<>>, b_b |-> <<>>]
NilConstants == [adaptation_level |-> 0, cpd |-> <<>>, f_freq |-> <<>>]
NoResult == [perceptually_identical |-> FALSE, Reason |-> "", NumPixelsFailed |-> 0,
             ErrorSum |-> FZero, ImageDifference |-> NilImage]

bounds == image_a
w == Size(image_a)[1]
h == Size(image_a)[2]
dim == w * h

RECURSIVE make(_, _)
make(s, n) == IF Len(s) = n THEN s ELSE make(Append(s, FZero), n)

RECURSIVE make_pix(_, _)
make_pix(s, n) == IF Len(s) = n THEN s ELSE make_pix(Append(s, <<0, 0, 0, 0>>), n)

\* the buffers make(..., dim) allocates
make_buffers(n) ==
  [a_lum |-> make(<<>>, n), b_lum |-> make(<<>>, n), a_a |-> make(<<>>, n),
   b_a |-> make(<<>>, n), a_b |-> make(<<>>, n), b_b |-> make(<<>>, n)]

\* image.NewRGBA(r)
NewRGBA(r) ==
  [Min |-> r.Min, Max |-> r.Max,
   Pix |-> make_pix(<<>>, (r.Max[1] - r.Min[1]) * (r.Max[2] - r.Min[2]))]

\* color.RGBA{0, 0, 0, 255} and color.RGBA{0, 0, 255, 255}
OpaqueBlack == <<0, 0, 0, 255>>
OpaqueBlue == <<0, 0, 255, 255>>

\* (*image.RGBA).SetRGBA: nothing is written outside the rectangle
SetRGBA(img, px, py, c) ==
  IF /\ img.Min[1] <= px /\ px < img.Max[1]
     /\ img.Min[2] <= py /\ py < img.Max[2]
  THEN [img EXCEPT !.Pix[(py - img.Min[2]) * (img.Max[1] - img.Min[1])
                         + (px - img.Min[1]) + 1] = c]
  ELSE img

Init ==
  /\ \E sa \in Sizes, sb \in Sizes :
       \E o \in OriginPairs(sa, sb), c \in ColourPairs(sa, sb), D \in Differences(sb) :
          /\ image_a = Uniform(o[1], sa, c[1])
          /\ image_b = Image(o[2], sb, c, D)
          /\ \E l \in BOOLEAN, t \in Thresholds(sa, sb) :
               args = [DefaultParameters EXCEPT !.LuminanceOnly = l, !.ThresholdPixels = t]
  /\ pc = "DimensionCheck"
  /\ x = 0
  /\ y = 0
  /\ identical = TRUE
  /\ log = <<>>
  /\ buf = NilBuffers
  /\ wg = 0
  /\ conv = <<>>
  /\ k = NilConstants
  /\ pixels_failed = 0
  /\ error_sum = FZero
  /\ diffImg = NilImage
  /\ la = NilPyramid
  /\ lb = NilPyramid
  /\ fuse = <<>>
  /\ writers = [convert |-> <<>>, diff |-> <<>>]
  /\ out = NoResult

\* a comparison of the widths alone
widths_differ(a, b) == Size(a)[1] # Size(b)[1]

\* a_size != b_size
sizes_differ(a, b) == Size(a) # Size(b)

\* if a_size != b_size { return false, CompareResult{Reason: ReasonDimensionMismatch} }
DimensionCheck ==
  /\ pc = "DimensionCheck"
  /\ IF sizes_differ(image_a, image_b)
     THEN /\ out' = [NoResult EXCEPT !.Reason = ReasonDimensionMismatch]
          /\ pc' = "done"
          /\ UNCHANGED <<x, y>>
     ELSE /\ pc' = "Scan"
          /\ y' = bounds.Min[2]
          /\ x' = bounds.Min[1]
          /\ out' = out
  /\ UNCHANGED <<inputs, identical, log, buf, wg, conv, k, pixels_failed, error_sum,
                 diffImg, la, lb, fuse, writers>>

\* one iteration of the inner loop of the scan for a differing pixel
ScanPixel ==
  /\ pc = "Scan"
  /\ y < bounds.Max[2]
  /\ x < bounds.Max[1]
  /\ IF At(image_a, x, y) # At(image_b, x, y)
     THEN /\ identical' = FALSE
          /\ x' = bounds.Max[1] + 1
          /\ y' = bounds.Max[2]
     ELSE /\ x' = x + 1
          /\ UNCHANGED <<identical, y>>
  /\ UNCHANGED <<inputs, pc, log, buf, wg, conv, k, pixels_failed, error_sum,
                 diffImg, la, lb, fuse, writers, out>>

\* the inner loop ends: the next row
ScanRow ==
  /\ pc = "Scan"
  /\ y < bounds.Max[2]
  /\ x >= bounds.Max[1]
  /\ y' = y + 1
  /\ x' = bounds.Min[1]
  /\ UNCHANGED <<inputs, pc, identical, log, buf, wg, conv, k, pixels_failed, error_sum,
                 diffImg, la, lb, fuse, writers, out>>

\* the scan ends: return, or allocate the buffers and start the conversion
ScanEnd ==
  /\ pc = "Scan"
  /\ y >= bounds.Max[2]
  /\ IF identical
     THEN /\ out' = [NoResult EXCEPT !.perceptually_identical = TRUE,
                                     !.Reason = ReasonBinaryIdentical]
          /\ pc' = "done"
          /\ UNCHANGED <<x, y, log, buf, wg, conv, writers>>
     ELSE /\ buf' = make_buffers(dim)
          /\ log' = Append(log, "Converting RGB to XYZ\n")
          /\ wg' = 0
          /\ conv' = [r \in 0..(h - 1) |-> [pc |-> "idle", y |-> 0, x |-> 0]]
          /\ writers' = [writers EXCEPT !.convert = [i \in 0..(dim - 1) |-> {}]]
          /\ y' = bounds.Min[2]
          /\ pc' = "ColorConvert"
          /\ UNCHANGED <<x, out>>
  /\ UNCHANGED <<inputs, identical, k, pixels_failed, error_sum, diffImg, la, lb, fuse>>

\* wg.Add(1); go func(y int) { ... }(y)
ConvertSpawn ==
  /\ pc = "ColorConvert"
  /\ y < bounds.Max[2]
  /\ wg' = wg + 1
  /\ conv' = [conv EXCEPT ![y - bounds.Min[2]] = [pc |-> "run", y |-> y, x |-> bounds.Min[1]]]
  /\ y' = y + 1
  /\ UNCHANGED <<inputs, pc, x, identical, log, buf, k, pixels_failed, error_sum,
                 diffImg, la, lb, fuse, writers, out>>

\* an index that leaves out the row
column_index(px, py, width) == px

\* i := x + y*w
convert_index(px, py, width) == px + py * width

\* the six assignments at index i, for the converted colours ca and cb
stored(b, i, ca, cb) ==
  [b EXCEPT !.a_a[i + 1] = ca[2], !.a_b[i + 1] = ca[3],
            !.b_a[i + 1] = cb[2], !.b_b[i + 1] = cb[3],
            !.a_lum[i + 1] = ca[1], !.b_lum[i + 1] = cb[1]]

\* one iteration of a row task of the conversion: both pixels converted and stored
ConvertPixel(r) ==
  /\ pc \in {"ColorConvert"}
  /\ conv[r].pc = "run"
  /\ conv[r].x < bounds.Max[1]
  /\ LET i == convert_index(conv[r].x, conv[r].y, w)
     IN  IF i < 0 \/ i >= dim
         THEN /\ pc' = "panic"
              /\ UNCHANGED <<buf, conv, writers>>
         ELSE /\ buf' = stored(buf, i,
                          color_convert(At(image_a, conv[r].x, conv[r].y),
                                        args.Gamma, args.Luminance),
                          color_convert(At(image_b, conv[r].x, conv[r].y),
                                        args.Gamma, args.Luminance))
              /\ conv' = [conv EXCEPT ![r].x = @ + 1]
              /\ writers' = [writers EXCEPT !.convert[i] = @ \cup {r}]
              /\ pc' = pc
  /\ UNCHANGED <<inputs, x, y, identical, log, wg, k, pixels_failed, error_sum,
                 diffImg, la, lb, fuse, out>>

\* the row is finished: defer wg.Done()
ConvertDone(r) ==
  /\ pc \in {"ColorConvert"}
  /\ conv[r].pc = "run"
  /\ conv[r].x >= bounds.Max[1]
  /\ conv' = [conv EXCEPT ![r].pc = "done"]
  /\ wg' = wg - 1
  /\ UNCHANGED <<inputs, pc, x, y, identical, log, buf, k, pixels_failed, error_sum,
                 diffImg, la, lb, fuse, writers, out>>

\* wg.Wait() returns; the values derived once for the per-pixel pass
PerformTest ==
  /\ pc = "ColorConvert"
  /\ y >= bounds.Max[2]
  /\ wg = 0
  /\ log' = Append(log, "Performing test\n")
  /\ k' = fuse_constants(w, args)
  /\ pc' = "PyramidBuild"
  /\ UNCHANGED <<inputs, x, y, identical, buf, wg, conv, pixels_failed, error_sum,
                 diffImg, la, lb, fuse, writers, out>>

\* the accumulators, the diff image and the two pyramids
PyramidBuild ==
  /\ pc = "PyramidBuild"
  /\ pixels_failed' = 0
  /\ error_sum' = FZero
  /\ log' = Append(log, "Constructing Laplacian Pyramids\n")
  /\ diffImg' = NewRGBA(bounds)
  /\ IF newPyramid_panics(w, h)
     THEN /\ pc' = "panic"
          /\ UNCHANGED <<la, lb, fuse, wg, y, writers>>
     ELSE /\ la' = newPyramid(buf.a_lum, w, h)
          /\ lb' = newPyramid(buf.b_lum, w, h)
          /\ wg' = 0
          /\ y' = 0
          /\ fuse' = [r \in 0..(h - 1) |->
                        [pc |-> "idle", x |-> 0, add |-> 1, old |-> FZero,
                         delta |-> FZero, delta_e |-> FZero, pass |-> TRUE]]
          /\ writers' = [writers EXCEPT !.diff = [i \in 0..(dim - 1) |-> {}]]
          /\ pc' = "PerPixelFuse"
  /\ UNCHANGED <<inputs, x, identical, buf, conv, k, out>>

\* wg.Add(1); go func(y int) { ... }(y)
FuseSpawn ==
  /\ pc = "PerPixelFuse"
  /\ y < h
  /\ wg' = wg + 1
  /\ fuse' = [fuse EXCEPT ![y].pc = "pixel"]
  /\ y' = y + 1
  /\ UNCHANGED <<inputs, pc, x, identical, log, buf, conv, k, pixels_failed, error_sum,
                 diffImg, la, lb, writers, out>>

\* the locals of a row task once the values l of its pixel are computed
computed(t, l) ==
  [t EXCEPT !.pc = "load", !.add = 1, !.delta = l.delta, !.delta_e = l.delta_e,
            !.pass = l.pass]

\* a row task computes the values of its next pixel and calls atomicAddFloat64
FusePixel(r) ==
  /\ pc = "PerPixelFuse"
  /\ fuse[r].pc = "pixel"
  /\ fuse[r].x < w
  /\ fuse' = [fuse EXCEPT ![r] = computed(@,
                 pixel_fuse(fuse[r].x, r, w, la, lb, buf.a_a, buf.b_a, buf.a_b, buf.b_b,
                            k, args))]
  /\ UNCHANGED <<inputs, pc, x, y, identical, log, buf, wg, conv, k, pixels_failed,
                 error_sum, diffImg, la, lb, writers, out>>

\* old := atomic.LoadUint64(v)
AtomicLoad(r) ==
  /\ pc = "PerPixelFuse"
  /\ fuse[r].pc = "load"
  /\ fuse' = [fuse EXCEPT ![r].pc = "cas", ![r].old = error_sum]
  /\ UNCHANGED <<inputs, pc, x, y, identical, log, buf, wg, conv, k, pixels_failed,
                 error_sum, diffImg, la, lb, writers, out>>

\* a swap that does not compare
swap_always(v, old) == TRUE

\* atomic.CompareAndSwapUint64(v, old, ...) succeeds
CompareAndSwap(v, old) == v = old

\* the compare-and-swap of atomicAddFloat64, and the retry when it fails
AtomicCAS(r) ==
  /\ pc = "PerPixelFuse"
  /\ fuse[r].pc = "cas"
  /\ IF CompareAndSwap(error_sum, fuse[r].old)
     THEN /\ error_sum' = FAdd(fuse[r].old,
                               IF fuse[r].add = 1 THEN fuse[r].delta ELSE fuse[r].delta_e)
          /\ fuse' = IF fuse[r].add = 1 /\ ~args.LuminanceOnly
                     THEN [fuse EXCEPT ![r].pc = "load", ![r].add = 2]
                     ELSE [fuse EXCEPT ![r].pc = "record"]
     ELSE /\ fuse' = [fuse EXCEPT ![r].pc = "load"]
          /\ error_sum' = error_sum
  /\ UNCHANGED <<inputs, pc, x, y, identical, log, buf, wg, conv, k, pixels_failed,
                 diffImg, la, lb, writers, out>>

\* the pixel of the diff image and the counter of failed pixels
FuseRecord(r) ==
  /\ pc = "PerPixelFuse"
  /\ fuse[r].pc = "record"
  /\ IF fuse[r].pass
     THEN /\ diffImg' = SetRGBA(diffImg, fuse[r].x, r, OpaqueBlack)
          /\ pixels_failed' = pixels_failed
     ELSE /\ pixels_failed' = pixels_failed + 1
          /\ diffImg' = SetRGBA(diffImg, fuse[r].x, r, OpaqueBlue)
  /\ writers' = [writers EXCEPT !.diff[r * w + fuse[r].x] = @ \cup {r}]
  /\ fuse' = [fuse EXCEPT ![r].pc = "pixel", ![r].x = @ + 1]
  /\ UNCHANGED <<inputs, pc, x, y, identical, log, buf, wg, conv, k, error_sum,
                 la, lb, out>>

\* the row is finished: defer wg.Done()
FuseDone(r) ==
  /\ pc = "PerPixelFuse"
  /\ fuse[r].pc = "pixel"
  /\ fuse[r].x >= w
  /\ fuse' = [fuse EXCEPT ![r].pc = "done"]
  /\ wg' = wg - 1
  /\ UNCHANGED <<inputs, pc, x, y, identical, log, buf, conv, k, pixels_failed,
                 error_sum, diffImg, la, lb, writers, out>>

\* a comparison that lets the threshold itself pass
verdict_at_most(failed, threshold) == failed <= threshold

\* uint(pixels_failed.Load()) < args.ThresholdPixels
verdict(failed, threshold) == failed < threshold

\* wg.Wait() returns; the verdict and the result
Aggregate ==
  /\ pc = "PerPixelFuse"
  /\ y >= h
  /\ wg = 0
  /\ LET perceptuallyIdentical == verdict(pixels_failed, args.ThresholdPixels)
     IN  out' = [perceptually_identical |-> perceptuallyIdentical,
                 Reason |-> IF perceptuallyIdentical THEN ReasonIndistinguishable
                            ELSE ReasonVisiblyDifferent,
                 NumPixelsFailed |-> pixels_failed,
                 ErrorSum |-> error_sum,
                 ImageDifference |-> diffImg]
  /\ pc' = "done"
  /\ UNCHANGED <<inputs, x, y, identical, log, buf, wg, conv, k, pixels_failed,
                 error_sum, diffImg, la, lb, fuse, writers>>

Next ==
  \/ DimensionCheck
  \/ ScanPixel
  \/ ScanRow
  \/ ScanEnd
  \/ ConvertSpawn
  \/ \E r \in DOMAIN conv : ConvertPixel(r)
  \/ \E r \in DOMAIN conv : ConvertDone(r)
  \/ PerformTest
  \/ PyramidBuild
  \/ FuseSpawn
  \/ \E r \in DOMAIN fuse : FusePixel(r)
  \/ \E r \in DOMAIN fuse : AtomicLoad(r)
  \/ \E r \in DOMAIN fuse : AtomicCAS(r)
  \/ \E r \in DOMAIN fuse : FuseRecord(r)
  \/ \E r \in DOMAIN fuse : FuseDone(r)
  \/ Aggregate

Spec == Init /\ [][Next]_vars

(***************************************************************************)
(* Properties.                                                             *)
(***************************************************************************)

\* YeeCompare has returned
Returned == pc = "done"

\* YeeCompare has returned after the per-pixel pass
FullPass == Returned /\ Len(log) = 3

\* C1: for images whose width or height differ, the call returns false with
\* the reason "Image dimensions do not match", whatever the pixels and the
\* parameters; no log line is written, no buffer, pyramid or diff image is
\* built, and the result has NumPixelsFailed = 0, ErrorSum = 0 and no image.
C1_DimensionMismatch ==
  Size(image_a) # Size(image_b) =>
    /\ pc \in {"DimensionCheck", "done"}
    /\ log = <<>>
    /\ buf = NilBuffers
    /\ la = NilPyramid /\ lb = NilPyramid
    /\ diffImg = NilImage
    /\ Returned =>
         out = [perceptually_identical |-> FALSE, Reason |-> ReasonDimensionMismatch,
                NumPixelsFailed |-> 0, ErrorSum |-> FZero, ImageDifference |-> NilImage]

\* the call has returned for images of the same width and different heights,
\* with pixels
C1_Witness ==
  /\ Returned
  /\ Size(image_a)[1] = Size(image_b)[1]
  /\ Size(image_a)[2] # Size(image_b)[2]
  /\ image_a.Pix # <<>> /\ image_b.Pix # <<>>
  /\ out.Reason = ReasonDimensionMismatch

\* C2: for images of equal dimensions, the call returns true with the reason
\* "Images are binary identical" if and only if every pixel has the same
\* (R, G, B, A) in both images.
C2_BinaryIdentical ==
  (Returned /\ Size(image_a) = Size(image_b)) =>
    ((out.perceptually_identical /\ out.Reason = ReasonBinaryIdentical)
       <=> image_a.Pix = image_b.Pix)

pixel_values(i) ==
  pixel_fuse(i % w, i \div w, w, la, lb, buf.a_a, buf.b_a, buf.a_b, buf.b_b, k, args)

\* the indices of the pixels that fail
Failed == {i \in 0..(dim - 1) : ~pixel_values(i).pass}

\* C4: after the per-pixel pass, ImageDifference has the bounds of the inputs
\* and each of its pixels is opaque blue if the pixel failed and opaque black
\* if it passed, so the blue pixels number NumPixelsFailed and none is left
\* unwritten.
C4_DiffImage ==
  FullPass =>
    /\ out.ImageDifference.Min = image_a.Min
    /\ out.ImageDifference.Max = image_a.Max
    /\ \A i \in 0..(dim - 1) :
         out.ImageDifference.Pix[i + 1] = IF i \in Failed THEN OpaqueBlue ELSE OpaqueBlack
    /\ Cardinality({i \in 0..(dim - 1) : out.ImageDifference.Pix[i + 1] = OpaqueBlue})
         = out.NumPixelsFailed

\* what the pixel with the values l adds to error_sum, in program order
added(l) == IF args.LuminanceOnly THEN <<l.delta>> ELSE <<l.delta, l.delta_e>>

\* what the row task r adds to error_sum from the pixel px on, in program order
RECURSIVE row_added(_, _)
row_added(r, px) ==
  IF px >= w THEN <<>> ELSE added(pixel_values(r * w + px)) \o row_added(r, px + 1)

\* the sequences of all the row tasks from the row r on
RECURSIVE rows_added(_)
rows_added(r) == IF r >= h THEN <<>> ELSE <<row_added(r, 0)>> \o rows_added(r + 1)

\* the sums of acc and all the values of the sequences ss, added one at a
\* time in every order that keeps the order of each sequence
RECURSIVE Sums(_, _)
Sums(acc, ss) ==
  IF \A r \in DOMAIN ss : ss[r] = <<>> THEN {acc}
  ELSE UNION {Sums(FAdd(acc, Head(ss[r])), [ss EXCEPT ![r] = Tail(@)]) :
                r \in {q \in DOMAIN ss : ss[q] # <<>>}}

\* C5: under every interleaving of the row tasks the returned totals are
\* complete: NumPixelsFailed is the number of failing pixels, ErrorSum is a
\* sum of every pixel's delta and (unless LuminanceOnly) delta_e, each added
\* once, and they are read only when every row task has finished.
C5_CompleteTotals ==
  FullPass =>
    /\ \A r \in DOMAIN fuse : fuse[r].pc = "done"
    /\ out.NumPixelsFailed = Cardinality(Failed)
    /\ out.ErrorSum \in Sums(FZero, rows_added(0))

\* two row tasks have both added non-zero values and failed pixels
C5_Witness ==
  /\ FullPass
  /\ h = 2
  /\ \A r \in DOMAIN fuse : fuse[r].delta # FZero
  /\ out.NumPixelsFailed = dim
  /\ out.ErrorSum # FZero

\* the scan of YeeCompare finds no differing pixel
scan_identical(a, b) ==
  \A py \in a.Min[2]..(a.Max[2] - 1), px \in a.Min[1]..(a.Max[1] - 1) :
     At(a, px, py) = At(b, px, py)

\* the conversion of a pixel of a computes an index outside the buffers
convert_panics(a) ==
  \E py \in a.Min[2]..(a.Max[2] - 1), px \in a.Min[1]..(a.Max[1] - 1) :
     \/ convert_index(px, py, Size(a)[1]) < 0
     \/ convert_index(px, py, Size(a)[1]) >= Pixels(Size(a))

\* the buffers after the conversion of the pixels n, n + 1, ... of a in
\* row-major order
RECURSIVE convert_from(_, _, _, _, _)
convert_from(a, b, p, n, bufs) ==
  IF n >= Pixels(Size(a)) THEN bufs
  ELSE convert_from(a, b, p, n + 1,
         stored(bufs,
                convert_index(a.Min[1] + (n % Size(a)[1]), a.Min[2] + (n \div Size(a)[1]),
                              Size(a)[1]),
                color_convert(At(a, a.Min[1] + (n % Size(a)[1]), a.Min[2] + (n \div Size(a)[1])),
                              p.Gamma, p.Luminance),
                color_convert(At(b, a.Min[1] + (n % Size(a)[1]), a.Min[2] + (n \div Size(a)[1])),
                              p.Gamma, p.Luminance)))

\* the number of pixels of a width x height image that fail, for the buffers,
\* the pyramids and the derived values
failed_with(bufs, pa, pb, c, width, height, p) ==
  Cardinality({i \in 0..(width * height - 1) :
                 ~pixel_fuse(i % width, i \div width, width, pa, pb,
                             bufs.a_a, bufs.b_a, bufs.a_b, bufs.b_b, c, p).pass})

\* the same for the buffers alone
failed_after(bufs, width, height, p) ==
  failed_with(bufs, newPyramid(bufs.a_lum, width, height),
              newPyramid(bufs.b_lum, width, height), fuse_constants(width, p),
              width, height, p)

\* the NumPixelsFailed that YeeCompare(a, b, p, nil) returns, or -1 if it panics
NumPixelsFailed(a, b, p) ==
  IF sizes_differ(a, b) \/ scan_identical(a, b) THEN 0
  ELSE IF convert_panics(a) \/ newPyramid_panics(Size(a)[1], Size(a)[2]) THEN -1
  ELSE failed_after(convert_from(a, b, p, 0, make_buffers(Pixels(Size(a)))),
                    Size(a)[1], Size(a)[2], p)

\* C6: for images A and B of equal dimensions and any configuration,
\* YeeCompare(A, B, cfg) and YeeCompare(B, A, cfg) return the same
\* NumPixelsFailed.
C6_Symmetric ==
  (Returned /\ Size(image_a) = Size(image_b)) =>
    out.NumPixelsFailed = NumPixelsFailed(image_b, image_a, args)

\* C7: with LuminanceOnly, for equal-sized images whose luminance buffers are
\* equal at every pixel, the per-pixel pass fails no pixel: NumPixelsFailed is
\* 0 and every pixel of the diff image is opaque black.
C7_LuminanceOnly ==
  (FullPass /\ args.LuminanceOnly /\ buf.a_lum = buf.b_lum) =>
    /\ out.NumPixelsFailed = 0
    /\ \A i \in 0..(dim - 1) : out.ImageDifference.Pix[i + 1] = OpaqueBlack

\* the call compares a 2x2 all-white image with a 2x2 all-black image under
\* the default configuration
WhiteBlack2x2 ==
  /\ Size(image_a) = <<2, 2>> /\ Size(image_b) = <<2, 2>>
  /\ \A i \in 1..4 : image_a.Pix[i] = White /\ image_b.Pix[i] = Black
  /\ args = DefaultParameters

\* C8: comparing a 2x2 all-white image with a 2x2 all-black image under the
\* default configuration returns false, "Images are visibly different" and
\* NumPixelsFailed = 4.
C8_WhiteBlack ==
  (Returned /\ WhiteBlack2x2) =>
    /\ ~out.perceptually_identical
    /\ out.Reason = ReasonVisiblyDifferent
    /\ out.NumPixelsFailed = 4

\* C8, as the code has it: the four failed pixels are fewer than the default
\* ThresholdPixels = 100, so the call returns true, "Images are perceptually
\* indistinguishable" and NumPixelsFailed = 4.
C8_WhiteBlackBelowThreshold ==
  (Returned /\ WhiteBlack2x2) =>
    /\ out.perceptually_identical
    /\ out.Reason = ReasonIndistinguishable
    /\ out.NumPixelsFailed = 4

\* the white and black 2x2 call has returned
C8_Witness == Returned /\ WhiteBlack2x2 /\ image_a.Min = <<0, 0>> /\ dim = 4

\* C9: the row tasks are race-free: no index of the channel buffers is
\* written by two row tasks of the conversion, no pixel of the diff image by
\* two row tasks of the per-pixel pass, which leaves the pyramids and the
\* buffers unchanged; and the per-pixel pass starts only when every task of
\* the conversion has finished.
C9_RaceFree ==
  /\ [](/\ \A i \in DOMAIN writers.convert : Cardinality(writers.convert[i]) <= 1
        /\ \A i \in DOMAIN writers.diff : Cardinality(writers.diff[i]) <= 1
        /\ pc \in {"PyramidBuild", "PerPixelFuse"} =>
             \A r \in DOMAIN conv : conv[r].pc = "done")
  /\ [][pc = "PerPixelFuse" => UNCHANGED <<la, lb, buf>>]_vars

\* both row tasks of a 2x2 call have written all their indices and pixels
C9_Witness ==
  /\ pc = "PerPixelFuse"
  /\ h = 2 /\ w = 2
  /\ \A i \in DOMAIN writers.convert : Cardinality(writers.convert[i]) = 1
  /\ \A i \in DOMAIN writers.diff : Cardinality(writers.diff[i]) = 1

\* C10: in convolve, for every width >= 1 and height >= 1 with
\* width * height > 1, the reflection keeps every source index inside the
\* buffer, so newPyramid builds its levels without an out-of-range access.
C10_ConvolveInRange ==
  (pc = "PyramidBuild" /\ w >= 1 /\ h >= 1 /\ w * h > 1) => convolve_in_range(w, h)

\* index := y*w + x of the per-pixel pass
fuse_index(px, py, width) == py * width + px

\* the levels the per-pixel pass hands to get_value: adaptation_level, and
\* i, i + 1, i + 2 for i = 0 .. MAX_PYR_LEVELS - 3
fuse_levels ==
  {k.adaptation_level} \cup
  UNION {{i, i + 1, i + 2} : i \in 0..(MAX_PYR_LEVELS - 3)}

\* a row task of the conversion is about to convert a pixel
Converting(r) ==
  pc = "ColorConvert" /\ conv[r].pc = "run" /\ conv[r].x < bounds.Max[1]

\* a row task of the per-pixel pass is about to compute a pixel
Fusing(r) ==
  pc = "PerPixelFuse" /\ fuse[r].pc = "pixel" /\ fuse[r].x < w

\* the accesses of the conversion: the index is inside the buffers and is the
\* index the per-pixel pass uses for the same pixel, counted from the origin
convert_in_range(r) ==
  /\ 0 <= convert_index(conv[r].x, conv[r].y, w)
  /\ convert_index(conv[r].x, conv[r].y, w) < dim
  /\ convert_index(conv[r].x, conv[r].y, w)
       = fuse_index(conv[r].x - bounds.Min[1], conv[r].y - bounds.Min[2], w)

\* the accesses of the per-pixel pass: levels 0 .. 7 that the pyramids have,
\* and an index inside every level and every buffer
fuse_in_range(r) ==
  /\ fuse_levels \subseteq 0..(MAX_PYR_LEVELS - 1)
  /\ \A level \in fuse_levels :
       /\ level + 1 \in DOMAIN la.levels /\ level + 1 \in DOMAIN lb.levels
       /\ fuse[r].x + r * la.width + 1 \in DOMAIN la.levels[level + 1]
       /\ fuse[r].x + r * lb.width + 1 \in DOMAIN lb.levels[level + 1]
  /\ 0 <= fuse_index(fuse[r].x, r, w) /\ fuse_index(fuse[r].x, r, w) < dim
  /\ \A b \in {buf.a_a, buf.b_a, buf.a_b, buf.b_b} :
       fuse_index(fuse[r].x, r, w) + 1 \in DOMAIN b

\* C11: every buffer access of YeeCompare is in range for equal-sized images
\* whose bounds have any origin: the index x + y*w of the conversion lies in
\* [0, w*h) and denotes the pixel that y*w + x denotes in the per-pixel pass,
\* and every get_value gets a level in 0 .. 7 and a coordinate whose index
\* lies in [0, w*h).
C11_AccessesInRange ==
  /\ \A r \in DOMAIN conv : Converting(r) => convert_in_range(r)
  /\ \A r \in DOMAIN fuse : Fusing(r) => fuse_in_range(r)
====
